---------------------------- MODULE Spec2Model ----------------------------
(***************************************************************************)
(* The HTTP/3 layer of mitmproxy/proxy/layers/http/_http3.py as a state    *)
(* machine: one connection object (Http3Server or Http3Client), its        *)
(* LayeredH3Connection codec with the MockQuic shim, and the events the    *)
(* proxy and the QUIC layer deliver to it, one handler turn per step.      *)
(***************************************************************************)
EXTENDS Integers, Sequences, FiniteSets, TLC

(***************************************************************************)
(* Bounds of the model.                                                    *)
(***************************************************************************)
\* number of logical (proxy side) stream ids the proxy uses in its intents
MaxLogical == 2
\* longest run of H3 frames carried by one QuicStreamDataReceived event
MaxFrames == 2
\* logical ids are LogicalBase+1 .. LogicalBase+MaxLogical, apart from every
\* transport id of the model
LogicalBase == 100

LogicalIds == {LogicalBase + i : i \in 1..MaxLogical}
Roles == {"server", "client"}

(***************************************************************************)
(* Names of the library constants the source refers to.                    *)
(***************************************************************************)
INITIAL == "INITIAL"
AFTER_HEADERS == "AFTER_HEADERS"
AFTER_TRAILERS == "AFTER_TRAILERS"
H3_REQUEST_CANCELLED == "H3_REQUEST_CANCELLED"
H3_INTERNAL_ERROR == "H3_INTERNAL_ERROR"
H3_GENERAL_PROTOCOL_ERROR == "H3_GENERAL_PROTOCOL_ERROR"
H3_FRAME_UNEXPECTED == "H3_FRAME_UNEXPECTED"
H3_NO_ERROR == "H3_NO_ERROR"
APPLICATION_ERROR == "QuicErrorCode.APPLICATION_ERROR"
CLIENT_CLOSED_REQUEST == "status_codes.CLIENT_CLOSED_REQUEST"
INTERNAL_SERVER_ERROR == "status_codes.INTERNAL_SERVER_ERROR"
BAD_GATEWAY == "status_codes.BAD_GATEWAY"

\* error codes a peer puts into a stream reset, and codes the proxy puts into
\* an outgoing ProtocolError intent
ResetCodes == {H3_REQUEST_CANCELLED, H3_NO_ERROR}
IntentCodes == {CLIENT_CLOSED_REQUEST, BAD_GATEWAY, H3_REQUEST_CANCELLED}
IntentKinds == {"Headers", "Data", "Trailers", "EndOfMessage", "ProtocolError"}
\* one H3 frame of a request stream: a header block the role's parser accepts,
\* one it rejects with ValueError, body data, or a PUSH_PROMISE
FrameKinds == {"H", "Hbad", "D", "P"}

RECURSIVE SeqsUpTo(_, _)
SeqsUpTo(S, n) ==
    IF n = 0 THEN {<<>>}
    ELSE LET shorter == SeqsUpTo(S, n - 1)
         IN  shorter \cup {Append(q, x) : q \in {p \in shorter : Len(p) = n - 1}, x \in S}

FrameSeqs == SeqsUpTo(FrameKinds, MaxFrames)

VARIABLES
    role,        \* Http3Server or Http3Client
    state,       \* self._handle_event: "start", "ready" or "done"
    status,      \* the handler: "idle" between turns, else how the turn in
                 \* progress ended: "returned", "blocked", "raised"
    stream,      \* h3_conn._stream: transport id -> stream state
    order,       \* insertion order of h3_conn._stream
    pending,     \* MockQuic.pending_commands
    pool,        \* MockQuic.available_stream_ids
    connError,   \* the connection error set_connection_error recorded
    h3done,      \* the codec stopped decoding after a protocol error
    eventToQuic, \* Http3Client._event_to_quic
    quicToEvent, \* Http3Client._quic_to_event
    opened,      \* number of streams the transport opened on request
    ev,          \* the event of the turn in progress
    out,         \* commands and reports the turn yielded so far, in order
    started,     \* ids with a Headers report or an accepted Headers intent
    headersReported, \* ids with a Headers report
    terminals    \* id -> number of EndOfMessage/ProtocolError reports so far

vars == <<role, state, status, stream, order, pending, pool, connError, h3done,
          eventToQuic, quicToEvent, opened, ev, out, started, headersReported,
          terminals>>

(***************************************************************************)
(* aioquic.quic.connection helpers.                                        *)
(***************************************************************************)
stream_is_client_initiated(sid) == sid % 2 = 0

stream_is_unidirectional(sid) == (sid \div 2) % 2 = 1

\* the id the QUIC layer answers an OpenQuicStream command with: the next free
\* id of the endpoint's own kind
OpenQuicStreamId(r, uni, n) ==
    4 * n + (IF uni THEN 2 ELSE 0) + (IF r = "client" THEN 0 ELSE 1)

(***************************************************************************)
(* Commands and reports a handler yields.                                  *)
(***************************************************************************)
Log(level, msg) == [t |-> "Log", level |-> level, msg |-> msg]

OpenQuicStream(uni) == [t |-> "OpenQuicStream", is_unidirectional |-> uni]

SendQuicStreamData(sid, frame, payload, end) ==
    [t |-> "SendQuicStreamData", sid |-> sid, frame |-> frame,
     payload |-> payload, end_stream |-> end]

ResetQuicStream(sid, code) == [t |-> "ResetQuicStream", sid |-> sid, code |-> code]

CloseConnection == [t |-> "CloseConnection"]

ReceiveHttp(kind, sid, code, msg) ==
    [t |-> "ReceiveHttp", kind |-> kind, sid |-> sid, code |-> code, msg |-> msg]

NoError == [code |-> "None", reason |-> "None"]

NoEvent ==
    [t |-> "none", kind |-> "", sid |-> 0, end |-> FALSE, code |-> "",
     frames |-> <<>>, st |-> "start"]

(***************************************************************************)
(* The connection object as one record, so that a handler is an operator   *)
(* from the object before the turn to the object after it.  exc is the     *)
(* exception in flight ("" when none), out the commands yielded so far.    *)
(***************************************************************************)
Self ==
    [state |-> state, stream |-> stream, order |-> order, pending |-> pending,
     pool |-> pool, connError |-> connError, h3done |-> h3done,
     eventToQuic |-> eventToQuic, quicToEvent |-> quicToEvent,
     opened |-> opened, out |-> <<>>, exc |-> "", blocked |-> FALSE,
     accepted |-> FALSE]

Yield(self, cmd) == [self EXCEPT !.out = Append(@, cmd)]

Raise(self, e) == [self EXCEPT !.exc = e]

(***************************************************************************)
(* MockQuic: the shim the codec calls instead of a QUIC connection.        *)
(***************************************************************************)
set_connection_error(self, code, reason) ==
    [self EXCEPT !.connError = [code |-> code, reason |-> reason]]

MockQuic_close(self, code, reason) ==
    LET s1 == set_connection_error(self, code, reason)
    IN  [s1 EXCEPT !.pending = Append(@, CloseConnection)]

MockQuic_send_stream_data(self, sid, frame, payload, end) ==
    [self EXCEPT !.pending = Append(@, SendQuicStreamData(sid, frame, payload, end))]

(***************************************************************************)
(* The codec (aioquic's H3Connection) as far as the layer drives it and    *)
(* reads its stream table: per stream the header states of both directions *)
(* and the ended flag.                                                     *)
(***************************************************************************)
H3Stream ==
    [kind |-> "H3Stream", headers_send_state |-> INITIAL,
     headers_recv_state |-> INITIAL, ended |-> FALSE]

\* what line 210 stores in the stream table in place of a stream
BoolTrue ==
    [kind |-> "bool", headers_send_state |-> INITIAL,
     headers_recv_state |-> INITIAL, ended |-> FALSE]

SetStream(self, sid, s) ==
    [self EXCEPT
        !.stream = [k \in (DOMAIN @) \cup {sid} |-> IF k = sid THEN s ELSE @[k]],
        !.order = IF sid \in DOMAIN self.stream THEN @ ELSE Append(@, sid)]

get_or_create_stream(self, sid) ==
    IF sid \in DOMAIN self.stream THEN self ELSE SetStream(self, sid, H3Stream)

NextHeadersState(hs) == IF hs = INITIAL THEN AFTER_HEADERS ELSE AFTER_TRAILERS

\* H3Connection.send_headers, called at lines 163 and 180 and 385
send_headers(self, sid, payload, end) ==
    LET s1 == get_or_create_stream(self, sid)
        s  == s1.stream[sid]
    IN  IF s.kind = "bool" THEN Raise(s1, "AttributeError")
        ELSE IF s.headers_send_state = AFTER_TRAILERS
        THEN Raise(s1, "H3FrameUnexpected")
        ELSE MockQuic_send_stream_data(
                 SetStream(s1, sid,
                     [s EXCEPT !.headers_send_state = NextHeadersState(@)]),
                 sid, "HEADERS", payload, end)

\* H3Connection.send_data, called at lines 159 and 186 and 393
send_data(self, sid, payload, end) ==
    LET s1 == get_or_create_stream(self, sid)
        s  == s1.stream[sid]
    IN  IF s.kind = "bool" THEN Raise(s1, "AttributeError")
        ELSE IF s.headers_send_state # AFTER_HEADERS
        THEN Raise(s1, "H3FrameUnexpected")
        ELSE MockQuic_send_stream_data(s1, sid, "DATA", payload, end)

\* the frames of one stream-data event, decoded in order: r.s is the stream,
\* r.events the decoded events, r.err whether a frame was illegal in the
\* stream's receive state.  A PUSH_PROMISE is illegal when a client sent it and
\* decodes to a PushPromiseReceived event, which has no stream_ended, otherwise
RECURSIVE DecodeFrames(_, _, _, _)
DecodeFrames(frames, sid, ended, r) ==
    IF frames = <<>> \/ r.err THEN r
    ELSE LET f    == Head(frames)
             last == Len(frames) = 1
             e    == [k |-> IF f \in {"H", "Hbad"} THEN "HeadersReceived"
                            ELSE IF f = "D" THEN "DataReceived"
                            ELSE "PushPromiseReceived",
                      sid |-> sid, parses |-> f = "H",
                      stream_ended |-> ended /\ last]
             r1   == IF f \in {"H", "Hbad"}
                     THEN IF r.s.headers_recv_state = AFTER_TRAILERS
                          THEN [r EXCEPT !.err = TRUE]
                          ELSE [r EXCEPT
                                   !.s.headers_recv_state = NextHeadersState(@),
                                   !.events = Append(@, e)]
                     ELSE IF f = "D"
                     THEN IF r.s.headers_recv_state # AFTER_HEADERS
                          THEN [r EXCEPT !.err = TRUE]
                          ELSE [r EXCEPT !.events = Append(@, e)]
                     ELSE IF role = "server"
                     THEN [r EXCEPT !.err = TRUE]
                     ELSE [r EXCEPT !.events = Append(@, e)]
         IN  DecodeFrames(Tail(frames), sid, ended, r1)

\* H3Connection.handle_event, called at line 232: the object after the call
\* and, in h3_events, the list it returns
handle_event(self, sid, frames, end) ==
    IF self.h3done THEN [obj |-> self, h3_events |-> <<>>]
    ELSE LET s1 == get_or_create_stream(self, sid)
             s  == s1.stream[sid]
         IN  IF s.kind = "bool"
             THEN [obj |-> Raise(s1, "AttributeError"), h3_events |-> <<>>]
             ELSE LET s2 == [s EXCEPT !.ended = @ \/ end]
                      r  == DecodeFrames(frames, sid, s2.ended,
                                [s |-> s2, events |-> <<>>, err |-> FALSE])
                      o  == SetStream(s1, sid, r.s)
                  IN  IF r.err
                      THEN [obj |-> MockQuic_close([o EXCEPT !.h3done = TRUE],
                                        H3_FRAME_UNEXPECTED, "frame not allowed"),
                            h3_events |-> <<>>]
                      ELSE IF frames = <<>> /\ s2.ended
                      THEN [obj |-> o,
                            h3_events |-> <<[k |-> "DataReceived", sid |-> sid,
                                             parses |-> FALSE, stream_ended |-> TRUE]>>]
                      ELSE [obj |-> o, h3_events |-> r.events]

(***************************************************************************)
(* LayeredH3Connection.                                                    *)
(***************************************************************************)
\* start(): two OpenQuicStream requests; the ids the QUIC layer answers with go
\* into the pool in the order they arrive
RECURSIVE LayeredH3Connection_start(_, _)
LayeredH3Connection_start(self, n) ==
    IF n = 0 THEN self
    ELSE LET id == OpenQuicStreamId(role, FALSE, self.opened)
             s1 == Yield(self, OpenQuicStream(FALSE))
         IN  LayeredH3Connection_start(
                 [s1 EXCEPT !.pool = Append(@, id), !.opened = @ + 1], n - 1)

\* transmit(): the loop condition is the Queue object itself, which is always
\* true; every buffered command is yielded in order and the next get() on the
\* empty queue blocks
transmit(self) ==
    [self EXCEPT !.out = @ \o self.pending, !.pending = <<>>, !.blocked = TRUE]

(***************************************************************************)
(* Role specializations.                                                   *)
(***************************************************************************)
\* ReceiveProtocolError.code of the role
ReceiveProtocolError_code == 
    IF role = "server" THEN "RequestProtocolError.code"
    ELSE "ResponseProtocolError.code"

\* Http3Client.postprocess_outgoing_event / Http3Connection's identity: the id
\* a report leaves the layer with; a missing key raises KeyError
CanPostprocess(self, sid) == role = "server" \/ sid \in DOMAIN self.quicToEvent

\* postprocess_outgoing_event of the base class (lines 132-133) used by the
\* client: the id is not translated
postprocess_untranslated(self, sid) == sid

postprocess_outgoing_event(self, sid) ==
    IF role = "server" THEN sid ELSE self.quicToEvent[sid]

\* yield ReceiveHttp(self.postprocess_outgoing_event(...))
Report(self, kind, sid, code, msg) ==
    IF CanPostprocess(self, sid)
    THEN Yield(self, ReceiveHttp(kind, postprocess_outgoing_event(self, sid), code, msg))
    ELSE Raise(self, "KeyError")

\* preprocess_incoming_event without line 439: the reverse entry is not recorded
preprocess_without_reverse_entry(self, lid) ==
    IF role = "server" THEN [obj |-> self, sid |-> lid]
    ELSE IF lid \in DOMAIN self.eventToQuic
    THEN [obj |-> self, sid |-> self.eventToQuic[lid]]
    ELSE LET id == OpenQuicStreamId(role, FALSE, self.opened)
             s1 == Yield(self, OpenQuicStream(FALSE))
         IN  [obj |-> [s1 EXCEPT
                          !.opened = @ + 1,
                          !.eventToQuic = [k \in (DOMAIN @) \cup {lid} |->
                                              IF k = lid THEN id ELSE @[k]]],
              sid |-> id]

\* Http3Client.preprocess_incoming_event / Http3Connection's identity: the
\* object after it and the transport id the intent is rewritten to
preprocess_incoming_event(self, lid) ==
    IF role = "server" THEN [obj |-> self, sid |-> lid]
    ELSE IF lid \in DOMAIN self.eventToQuic
    THEN [obj |-> self, sid |-> self.eventToQuic[lid]]
    ELSE LET id == OpenQuicStreamId(role, FALSE, self.opened)
             s1 == Yield(self, OpenQuicStream(FALSE))
         IN  [obj |-> [s1 EXCEPT
                          !.opened = @ + 1,
                          !.eventToQuic = [k \in (DOMAIN @) \cup {lid} |->
                                              IF k = lid THEN id ELSE @[k]],
                          !.quicToEvent = [k \in (DOMAIN @) \cup {id} |->
                                              IF k = id THEN lid ELSE @[k]]],
              sid |-> id]

\* Http3Server.send_protocol_error
Http3Server_send_protocol_error(self, sid, code) ==
    LET c  == IF code # CLIENT_CLOSED_REQUEST THEN INTERNAL_SERVER_ERROR ELSE code
        s1 == send_headers(self, sid, c, FALSE)
    IN  IF s1.exc # "" THEN s1
        ELSE send_data(s1, sid, "format_error", TRUE)

\* the body of Http3Client.send_protocol_error: what iterating it would yield
Http3Client_send_protocol_error(self, sid, code) ==
    LET c == IF code # H3_REQUEST_CANCELLED THEN H3_INTERNAL_ERROR ELSE code
    IN  Yield(self, ResetQuicStream(sid, c))

\* self.send_protocol_error(event) at line 190: a plain call.  The client's
\* method contains a yield, so the call only builds a generator, which is
\* dropped without being run
send_protocol_error(self, sid, code) ==
    IF role = "server" THEN Http3Server_send_protocol_error(self, sid, code)
    ELSE self

(***************************************************************************)
(* Http3Connection.state_ready, one operator per branch.                   *)
(***************************************************************************)
\* lines 154-200 without lines 174-178: the send state is not forced
ready_HttpEvent_keeps_send_state(self, kind, lid, end, code) ==
    LET p   == preprocess_incoming_event(self, lid)
        s0  == p.obj
        sid == p.sid
        r   == CASE kind = "Data" -> send_data(s0, sid, "data", FALSE)
                 [] kind = "Headers" -> send_headers(s0, sid, "headers", end)
                 [] kind = "Trailers" -> send_headers(s0, sid, "trailers", TRUE)
                 [] kind = "EndOfMessage" -> send_data(s0, sid, "", TRUE)
                 [] kind = "ProtocolError" -> send_protocol_error(s0, sid, code)
    IN  IF r.exc = "H3FrameUnexpected" THEN [r EXCEPT !.exc = ""]
        ELSE IF r.exc = "" THEN transmit([r EXCEPT !.accepted = TRUE])
        ELSE r

\* lines 154-200: an HttpEvent of the proxy
ready_HttpEvent(self, kind, lid, end, code) ==
    LET p   == preprocess_incoming_event(self, lid)
        s0  == p.obj
        sid == p.sid
        hdr == send_headers(s0, sid, "headers", end)
        r   == CASE kind = "Data" -> send_data(s0, sid, "data", FALSE)
                 [] kind = "Headers" ->
                        IF hdr.exc = "" /\ end
                        THEN SetStream(hdr, sid,
                                 [hdr.stream[sid] EXCEPT
                                     !.headers_send_state = AFTER_TRAILERS])
                        ELSE hdr
                 [] kind = "Trailers" -> send_headers(s0, sid, "trailers", TRUE)
                 [] kind = "EndOfMessage" -> send_data(s0, sid, "", TRUE)
                 [] kind = "ProtocolError" -> send_protocol_error(s0, sid, code)
    IN  IF r.exc = "H3FrameUnexpected" THEN [r EXCEPT !.exc = ""]
        ELSE IF r.exc = "" THEN transmit([r EXCEPT !.accepted = TRUE])
        ELSE r

\* lines 202-226: a stream reset by the peer
ready_QuicStreamReset(self, sid, code) ==
    IF ~(stream_is_client_initiated(sid) /\ sid \in DOMAIN self.stream) THEN self
    ELSE IF self.stream[sid].kind = "bool" THEN Raise(self, "AttributeError")
    ELSE IF self.stream[sid].ended THEN self
    ELSE Report(SetStream(self, sid, BoolTrue), "ProtocolError", sid,
                IF code = H3_REQUEST_CANCELLED THEN CLIENT_CLOSED_REQUEST
                ELSE ReceiveProtocolError_code,
                "stream reset by client")

\* lines 233-301: the body of the loop over the decoded events
RECURSIVE ready_h3_events(_, _)
ready_h3_events(self, h3_events) ==
    IF h3_events = <<>> \/ self.exc # "" THEN self
    ELSE LET e  == Head(h3_events)
             s0 == Yield(self, Log("info", "h3_event"))
             eom(s) == IF s.exc = "" /\ e.stream_ended
                       THEN Report(s, "EndOfMessage", e.sid, "", "")
                       ELSE s
             s1 == IF e.k = "DataReceived" /\ stream_is_client_initiated(e.sid)
                   THEN eom(Report(s0, "Data", e.sid, "", ""))
                   ELSE IF e.k = "HeadersReceived" /\ stream_is_client_initiated(e.sid)
                   THEN eom(IF s0.stream[e.sid].headers_recv_state = AFTER_TRAILERS
                            THEN Report(s0, "Trailers", e.sid, "", "")
                            ELSE IF ~e.parses
                            THEN Yield(set_connection_error(s0,
                                           H3_GENERAL_PROTOCOL_ERROR,
                                           "Invalid HTTP/3 request headers"),
                                       CloseConnection)
                            ELSE Report(s0, "Headers", e.sid, "", ""))
                   ELSE Yield(s0, Log(IF stream_is_client_initiated(e.sid)
                                      THEN "info" ELSE "debug", "Ignored"))
         IN  ready_h3_events(s1, Tail(h3_events))

\* lines 228-301: stream data received
ready_QuicStreamDataReceived(self, sid, frames, end) ==
    LET s0 == Yield(self, Log("info", "recvd data"))
        h  == handle_event(s0, sid, frames, end)
    IN  ready_h3_events(h.obj, h.h3_events)

\* lines 305-324: the loop over h3_conn._stream.values()
RECURSIVE ready_close_streams(_, _)
ready_close_streams(self, ids) ==
    IF ids = <<>> \/ self.exc # "" THEN self
    ELSE LET sid == Head(ids)
             s   == self.stream[sid]
             ce  == self.connError
             s1  == IF s.kind = "bool" THEN Raise(self, "AttributeError")
                    ELSE IF stream_is_client_initiated(sid) /\ ~s.ended
                    THEN Report(self, "ProtocolError", sid,
                                IF ce = NoError THEN APPLICATION_ERROR ELSE ce.code,
                                IF ce = NoError THEN "Connection closed."
                                ELSE ce.reason)
                    ELSE self
         IN  ready_close_streams(s1, Tail(ids))

\* lines 304-325: the connection was closed
ready_ConnectionClosed(self) ==
    LET s1 == ready_close_streams(self, self.order)
    IN  IF s1.exc # "" THEN s1 ELSE [s1 EXCEPT !.state = "done"]

\* lines 330-336
state_start(self) ==
    LayeredH3Connection_start([self EXCEPT !.state = "ready"], 2)

\* lines 145-147
state_done(self) == self

(***************************************************************************)
(* Events.                                                                 *)
(***************************************************************************)
\* ids the proxy names in its intents: the request streams on the server
\* side, logical ids on the client side
IntentIds == IF role = "server" THEN {0, 4} ELSE LogicalIds
\* transport stream ids the QUIC layer reports events for: two client-initiated
\* bidirectional streams (on the client side one of the two that start() opened
\* and the first one opened for an intent) carry data and resets, a
\* server-initiated one resets
DataIds == IF role = "server" THEN {0, 4} ELSE {0, 8}
RecvIds == DataIds \cup {1}
ProxyIds == RecvIds \cup LogicalIds

HttpEvent(kind, lid, end, code) ==
    [NoEvent EXCEPT !.t = "HttpEvent", !.kind = kind, !.sid = lid, !.end = end,
                    !.code = code, !.st = state]

QuicStreamDataReceived(sid, frames, end) ==
    [NoEvent EXCEPT !.t = "QuicStreamDataReceived", !.sid = sid,
                    !.frames = frames, !.end = end, !.st = state]

QuicStreamReset(sid, code) ==
    [NoEvent EXCEPT !.t = "QuicStreamReset", !.sid = sid, !.code = code,
                    !.st = state]

ConnectionClosed == [NoEvent EXCEPT !.t = "ConnectionClosed", !.st = state]

StartEvent == [NoEvent EXCEPT !.t = "Start", !.st = state]

HttpEvents ==
    {HttpEvent(k, l, e, c) : k \in IntentKinds \ {"Headers", "ProtocolError"},
                             l \in IntentIds, e \in {FALSE}, c \in {""}}
    \cup {HttpEvent("Headers", l, e, "") : l \in IntentIds, e \in BOOLEAN}
    \cup {HttpEvent("ProtocolError", l, FALSE, c) : l \in IntentIds, c \in IntentCodes}

\* the QUIC layer reports events only for streams that exist: any stream of the
\* peer's kind, and the streams of our own kind it opened for us
StreamExists(sid) ==
    (role = "client") = stream_is_client_initiated(sid) => sid \div 4 < opened

\* no stream data follows the end of a stream or its reset
ReceiveOpen(sid) ==
    sid \in DOMAIN stream => stream[sid].kind = "H3Stream" /\ ~stream[sid].ended

DataEvents ==
    {QuicStreamDataReceived(i, f, e) :
        i \in {j \in DataIds : StreamExists(j)}, f \in FrameSeqs, e \in BOOLEAN}

ResetEvents ==
    {QuicStreamReset(i, c) : i \in {j \in RecvIds : StreamExists(j)}, c \in ResetCodes}

(***************************************************************************)
(* One handler turn: the object r the handler leaves, for event e.         *)
(***************************************************************************)
IsReport(o, kinds) == o.t = "ReceiveHttp" /\ o.kind \in kinds

Count(q, P(_)) == Cardinality({i \in 1..Len(q) : P(q[i])})

Turn(e, r) ==
    /\ ev' = e
    /\ out' = r.out
    /\ status' = IF r.exc # "" THEN "raised"
                 ELSE IF r.blocked THEN "blocked" ELSE "returned"
    /\ state' = r.state
    /\ stream' = r.stream
    /\ order' = r.order
    /\ pending' = r.pending
    /\ pool' = r.pool
    /\ connError' = r.connError
    /\ h3done' = r.h3done
    /\ eventToQuic' = r.eventToQuic
    /\ quicToEvent' = r.quicToEvent
    /\ opened' = r.opened
    /\ started' = started
            \cup {r.out[i].sid : i \in {j \in 1..Len(r.out) :
                                         IsReport(r.out[j], {"Headers"})}}
            \cup (IF e.t = "HttpEvent" /\ e.kind = "Headers" /\ r.accepted
                  THEN {e.sid} ELSE {})
    /\ headersReported' = headersReported
            \cup {r.out[i].sid : i \in {j \in 1..Len(r.out) :
                                         IsReport(r.out[j], {"Headers"})}}
    /\ terminals' = [id \in ProxyIds |->
            terminals[id] + Count(r.out, LAMBDA o :
                IsReport(o, {"EndOfMessage", "ProtocolError"}) /\ o.sid = id)]
    /\ role' = role

Init ==
    /\ role \in Roles
    /\ state = "start"
    /\ status = "idle"
    /\ stream = <<>>
    /\ order = <<>>
    /\ pending = <<>>
    /\ pool = <<>>
    /\ connError = NoError
    /\ h3done = FALSE
    /\ eventToQuic = <<>>
    /\ quicToEvent = <<>>
    /\ opened = 0
    /\ ev = NoEvent
    /\ out = <<>>
    /\ started = {}
    /\ headersReported = {}
    /\ terminals = [id \in ProxyIds |-> 0]

Start ==
    /\ status = "idle" /\ state = "start"
    /\ Turn(StartEvent, state_start(Self))

HttpIntent ==
    /\ status = "idle" /\ state = "ready"
    /\ \E e \in HttpEvents :
          Turn(e, ready_HttpEvent(Self, e.kind, e.sid, e.end, e.code))

StreamDataReceived ==
    /\ status = "idle" /\ state = "ready"
    /\ \E e \in DataEvents :
          /\ ReceiveOpen(e.sid)
          /\ Turn(e, ready_QuicStreamDataReceived(Self, e.sid, e.frames, e.end))

StreamReset ==
    /\ status = "idle" /\ state = "ready"
    /\ \E e \in ResetEvents :
          Turn(e, ready_QuicStreamReset(Self, e.sid, e.code))

ConnectionClosedEvent ==
    /\ status = "idle" /\ state = "ready"
    /\ Turn(ConnectionClosed, ready_ConnectionClosed(Self))

DoneEvent ==
    /\ status = "idle" /\ state = "done"
    /\ \E e \in HttpEvents \cup {d \in DataEvents : ReceiveOpen(d.sid)}
                   \cup ResetEvents \cup {ConnectionClosed} :
          Turn(e, state_done(Self))

\* the driver has taken the commands of a finished turn and is ready to
\* deliver the next event
CompleteTurn ==
    /\ status = "returned"
    /\ status' = "idle"
    /\ ev' = NoEvent
    /\ out' = <<>>
    /\ UNCHANGED <<role, state, stream, order, pending, pool, connError, h3done,
                   eventToQuic, quicToEvent, opened, started, headersReported,
                   terminals>>

Next ==
    \/ Start
    \/ HttpIntent
    \/ StreamDataReceived
    \/ StreamReset
    \/ ConnectionClosedEvent
    \/ DoneEvent
    \/ CompleteTurn

Spec == Init /\ [][Next]_vars

(***************************************************************************)
(* Vocabulary of the properties.                                           *)
(***************************************************************************)
\* a turn for an event of shape t, delivered in Ready, has run
Handled(t) == status # "idle" /\ ev.t = t /\ ev.st = "ready"

\* the next step is the turn of an event of shape t delivered in Ready
Handles(t) == status = "idle" /\ state = "ready" /\ status' # "idle" /\ ev'.t = t

IsInstruction(o) ==
    o.t \in {"OpenQuicStream", "SendQuicStreamData", "ResetQuicStream", "CloseConnection"}

\* client-initiated streams of the codec's table that are not marked ended
OpenStreams(tbl) ==
    {sid \in DOMAIN tbl : /\ stream_is_client_initiated(sid)
                          /\ tbl[sid].kind = "H3Stream"
                          /\ ~tbl[sid].ended}

\* the id a report for transport stream sid carries
ReportedId(sid) == IF role = "server" THEN sid ELSE quicToEvent[sid]

\* every stream of the table has a logical id (always so for Http3Server)
AllTranslatable == role = "client" => DOMAIN stream \subseteq DOMAIN quicToEvent

(***************************************************************************)
(* C1: every stream that was started (a Headers report, or an accepted     *)
(* outgoing Headers intent) gets exactly one terminal report, EndOfMessage *)
(* or ProtocolError: never two, and when the connection-closed event has   *)
(* been handled in Ready none is left without one.                         *)
(***************************************************************************)
C1_ExactlyOneTerminal ==
    /\ \A id \in ProxyIds : terminals[id] <= 1
    /\ Handled("ConnectionClosed") => \A id \in started : terminals[id] = 1

(***************************************************************************)
(* C2: once a connection-closed event has been handled in Ready the state  *)
(* is Done; no step leaves Done, and a turn in Done yields no command and  *)
(* no report.  (The first part is stated for tables whose streams all have *)
(* a logical id.)                                                          *)
(***************************************************************************)
C2_DoneAbsorbingSilent ==
    /\ (Handled("ConnectionClosed") /\ AllTranslatable) => state = "done"
    /\ (status # "idle" /\ ev.st = "done") =>
           state = "done" /\ status = "returned" /\ out = <<>>

(***************************************************************************)
(* C3: on the client the two id maps are mutual inverses in every state,   *)
(* and no step removes or changes an entry of either.                      *)
(***************************************************************************)
MutualInverses ==
    /\ \A l \in DOMAIN eventToQuic :
          eventToQuic[l] \in DOMAIN quicToEvent /\ quicToEvent[eventToQuic[l]] = l
    /\ \A q \in DOMAIN quicToEvent :
          quicToEvent[q] \in DOMAIN eventToQuic /\ eventToQuic[quicToEvent[q]] = q

MapsStable ==
    /\ \A l \in DOMAIN eventToQuic :
          l \in DOMAIN eventToQuic' /\ eventToQuic'[l] = eventToQuic[l]
    /\ \A q \in DOMAIN quicToEvent :
          q \in DOMAIN quicToEvent' /\ quicToEvent'[q] = quicToEvent[q]

C3_BijectionStable == [](role = "client" => MutualInverses) /\ [][MapsStable]_vars

\* two logical ids are mapped and an intent for a mapped id has been handled
\* without opening a stream
C3_Witness ==
    /\ role = "client" /\ status # "idle" /\ ev.t = "HttpEvent" /\ ev.st = "ready"
    /\ Cardinality(DOMAIN eventToQuic) = 2
    /\ \A i \in 1..Len(out) : out[i].t # "OpenQuicStream"

(***************************************************************************)
(* C4: a connection-closed event handled in Ready yields exactly one       *)
(* ProtocolError report for each client-initiated stream not marked ended  *)
(* and nothing else, each with the recorded connection error's reason and  *)
(* code or else "Connection closed." and the application error code, and   *)
(* leaves the state Done.  (Stated for tables whose streams all have a     *)
(* logical id.)                                                            *)
(***************************************************************************)
ClosureReport(sid) ==
    ReceiveHttp("ProtocolError", ReportedId(sid),
                IF connError = NoError THEN APPLICATION_ERROR ELSE connError.code,
                IF connError = NoError THEN "Connection closed." ELSE connError.reason)

C4_ClosureReports ==
    (Handled("ConnectionClosed") /\ AllTranslatable) =>
        /\ state = "done" /\ status = "returned"
        /\ Len(out) = Cardinality(OpenStreams(stream))
        /\ \A sid \in OpenStreams(stream) :
              Count(out, LAMBDA o : o = ClosureReport(sid)) = 1

(***************************************************************************)
(* C5: a stream reset handled in Ready for a client-initiated stream that  *)
(* the codec knows and that has not ended marks it ended and yields one    *)
(* ProtocolError report, with code 499 for "request cancelled" and the     *)
(* role's generic code otherwise; any other reset (not client-initiated,   *)
(* unknown, ended, reset before) yields nothing.  (Stated for streams that *)
(* have a logical id.)                                                     *)
(***************************************************************************)
ResetReport(e) ==
    ReceiveHttp("ProtocolError", ReportedId(e.sid),
                IF e.code = H3_REQUEST_CANCELLED THEN CLIENT_CLOSED_REQUEST
                ELSE ReceiveProtocolError_code,
                "stream reset by client")

C5_ResetStep ==
    (Handles("QuicStreamReset") /\ CanPostprocess(Self, ev'.sid)) =>
        /\ status' = "returned"
        /\ IF ev'.sid \in OpenStreams(stream)
           THEN /\ out' = <<ResetReport(ev')>>
                /\ ev'.sid \notin OpenStreams(stream')
           ELSE out' = <<>>

C5_ResetReports == [][C5_ResetStep]_vars

(***************************************************************************)
(* C6: on the client an outgoing ProtocolError intent handled in Ready     *)
(* yields exactly one reset-stream instruction, for the mapped transport   *)
(* stream and with the code "request cancelled" kept and any other code    *)
(* replaced by the H3 internal error, and no stream-data instruction.      *)
(***************************************************************************)
C6_ClientProtocolError ==
    (Handled("HttpEvent") /\ role = "client" /\ ev.kind = "ProtocolError") =>
        /\ Count(out, LAMBDA o : o.t = "ResetQuicStream") = 1
        /\ Count(out, LAMBDA o : o.t = "SendQuicStreamData") = 0
        /\ \E i \in 1..Len(out) :
              <<out[i]>> = Http3Client_send_protocol_error(
                               Self, eventToQuic[ev.sid], ev.code).out

(***************************************************************************)
(* C7: on the server an outgoing ProtocolError intent handled in Ready on  *)
(* a stream whose response headers have not been sent yields a header-send *)
(* instruction with status 499 for code 499 and 500 for any other code,    *)
(* then a data-send instruction with the formatted error body and          *)
(* end-of-stream, and nothing else.                                        *)
(***************************************************************************)
HeadersNotSent(sid) ==
    sid \in DOMAIN stream =>
        stream[sid].kind = "H3Stream" /\ stream[sid].headers_send_state = INITIAL

C7_ServerStep ==
    (/\ Handles("HttpEvent") /\ role = "server" /\ ev'.kind = "ProtocolError"
     /\ HeadersNotSent(ev'.sid)) =>
        out' = << SendQuicStreamData(ev'.sid, "HEADERS",
                      IF ev'.code = CLIENT_CLOSED_REQUEST THEN CLIENT_CLOSED_REQUEST
                      ELSE INTERNAL_SERVER_ERROR, FALSE),
                  SendQuicStreamData(ev'.sid, "DATA", "format_error", TRUE) >>

C7_ServerProtocolError == [][C7_ServerStep]_vars

(***************************************************************************)
(* C8: when a turn in Ready that invoked the codec (an outgoing intent, or *)
(* stream data fed to the codec) is over, nothing is left in the pending   *)
(* instruction queue: what the codec buffered was yielded in that turn.    *)
(***************************************************************************)
C8_QueueDrained ==
    (Handled("HttpEvent") \/ Handled("QuicStreamDataReceived")) => pending = <<>>

(***************************************************************************)
(* C9: every turn terminates: no handler is left waiting on the empty      *)
(* pending-instruction queue.                                              *)
(***************************************************************************)
C9_TurnTerminates == status # "blocked"

(***************************************************************************)
(* C11: the turn of the start event issues exactly two open-stream         *)
(* requests, both for unidirectional streams, puts the two ids the         *)
(* transport answered with into the pool in that order, and leaves the     *)
(* connection in Ready; only the start event is handled in Start.          *)
(***************************************************************************)
C11_StartOpensTwoUnidirectional ==
    (status # "idle" /\ ev.st = "start") =>
        /\ ev.t = "Start" /\ status = "returned" /\ state = "ready"
        /\ out = <<OpenQuicStream(TRUE), OpenQuicStream(TRUE)>>
        /\ pool = <<OpenQuicStreamId(role, TRUE, 0), OpenQuicStreamId(role, TRUE, 1)>>

(***************************************************************************)
(* C12: a stream-data turn in which header parsing fails records the       *)
(* general-protocol-error connection error, yields exactly one             *)
(* close-connection instruction and no Headers report for the stream of    *)
(* the block, and after the failure no Headers or Data report is yielded   *)
(* for any stream: none later in that turn, none in any later turn.        *)
(***************************************************************************)
\* a stream-data turn yields CloseConnection itself only at line 278
ParseFailedAt(q, i) == i \in 1..Len(q) /\ q[i] = CloseConnection

ParseErrorRecorded(ce) == ce.code = H3_GENERAL_PROTOCOL_ERROR

C12_ParseFailureStep ==
    /\ (Handles("QuicStreamDataReceived") /\ \E i \in 1..Len(out') : ParseFailedAt(out', i)) =>
          /\ ParseErrorRecorded(connError')
          /\ Count(out', LAMBDA o : o = CloseConnection) = 1
          /\ \A i, j \in 1..Len(out') :
                (ParseFailedAt(out', i) /\ IsReport(out'[j], {"Headers", "Data"})) => j < i
    /\ (ParseErrorRecorded(connError) /\ status = "idle" /\ status' # "idle") =>
          \A j \in 1..Len(out') : ~IsReport(out'[j], {"Headers", "Data"})

C12_ParseFailureFatal == [][C12_ParseFailureStep]_vars

(***************************************************************************)
(* C13: a stream reset does not abort the connection: the reset turn       *)
(* leaves the state Ready, and a connection-closed event handled in Ready  *)
(* after a stream was reset returns normally, yields exactly one           *)
(* ProtocolError report for each other open client-initiated stream, none  *)
(* for the reset stream, and leaves the state Done.  (Stated for tables    *)
(* whose streams all have a logical id.)                                   *)
(***************************************************************************)
\* a stream whose reset the layer has handled
WasReset(sid) == sid \in DOMAIN stream /\ stream[sid].kind = "bool"

C13_ResetDoesNotAbort ==
    /\ Handled("QuicStreamReset") => state = "ready"
    /\ (Handled("ConnectionClosed") /\ AllTranslatable /\ \E sid \in RecvIds : WasReset(sid)) =>
          /\ state = "done" /\ status = "returned"
          /\ Len(out) = Cardinality(OpenStreams(stream))
          /\ \A sid \in OpenStreams(stream) :
                Count(out, LAMBDA o : o = ClosureReport(sid)) = 1
          /\ \A sid \in RecvIds :
                WasReset(sid) => Count(out, LAMBDA o : o.sid = ReportedId(sid)) = 0

(***************************************************************************)
(* C14: when the codec has accepted an outgoing Headers intent marked      *)
(* end-of-message, the turn has yielded one header-send instruction for    *)
(* the stream with end-of-stream set and no data-send instruction, the     *)
(* stream's send header state is the terminal one, and with the stream in  *)
(* that state the handler answers every Headers, Data, Trailers or         *)
(* EndOfMessage intent for it with no command, no report and no exception. *)
(***************************************************************************)
\* the transport stream an intent for id lid is sent on
TransportId(lid) == IF role = "server" THEN lid ELSE eventToQuic[lid]

\* the codec accepted the turn's intent: the handler went on to transmit
AcceptedIntent(kind) == Handled("HttpEvent") /\ ev.kind = kind /\ status = "blocked"

C14_HeadersEndForcesTerminal ==
    (AcceptedIntent("Headers") /\ ev.end) =>
        LET sid == TransportId(ev.sid)
        IN  /\ Count(out, LAMBDA o :
                     o = SendQuicStreamData(sid, "HEADERS", "headers", TRUE)) = 1
            /\ Count(out, LAMBDA o :
                     o.t = "SendQuicStreamData" /\ o.frame = "DATA") = 0
            /\ stream[sid].headers_send_state = AFTER_TRAILERS
            /\ \A k \in {"Headers", "Data", "Trailers", "EndOfMessage"}, e \in BOOLEAN :
                  LET r == ready_HttpEvent(Self, k, ev.sid, e, "")
                  IN  r.out = <<>> /\ r.exc = "" /\ ~r.accepted /\ ~r.blocked

C14_Witness == AcceptedIntent("Headers") /\ ev.end /\ role = "client"

(***************************************************************************)
(* C15: the reports of one stream keep source order.  In every turn, a     *)
(* Data, Trailers or EndOfMessage report for an id is yielded only when a  *)
(* Headers report for that id was yielded before it (in this turn or an    *)
(* earlier one), and no Headers, Data, Trailers or EndOfMessage report for *)
(* an id follows an EndOfMessage report for it.                            *)
(***************************************************************************)
StreamReports == {"Headers", "Data", "Trailers", "EndOfMessage"}

\* position j of q is a report of one of the kinds for id
ReportAt(q, j, kinds, id) == IsReport(q[j], kinds) /\ q[j].sid = id

C15_OrderStep ==
    (status = "idle" /\ status' # "idle") =>
        \A id \in ProxyIds : \A j \in 1..Len(out') :
            /\ ReportAt(out', j, {"Data", "Trailers", "EndOfMessage"}, id) =>
                  \/ id \in headersReported
                  \/ \E i \in 1..(j - 1) : ReportAt(out', i, {"Headers"}, id)
            /\ ReportAt(out', j, StreamReports, id) =>
                  /\ \A i \in 1..(j - 1) : ~ReportAt(out', i, {"EndOfMessage"}, id)
                  /\ terminals[id] = 0

C15_ReportOrder == [][C15_OrderStep]_vars

(***************************************************************************)
(* C16: on the client every report a turn yields carries a logical id, and *)
(* the transport stream that id is mapped to is the stream the report is   *)
(* about (the stream of the data or reset event, or a stream of the        *)
(* codec's table when the connection was closed); a turn that has to       *)
(* report for a transport stream without reverse entry (a reset of an open *)
(* stream, a connection close with such a stream open, a batch the codec   *)
(* decodes that starts with the headers of a new stream) ends with an      *)
(* exception and yields no report for it.                                  *)
(***************************************************************************)
\* the stream of the event has no reverse entry
Untranslatable(sid) == sid \notin DOMAIN quicToEvent

C16_ClientStep ==
    (role = "client" /\ status = "idle" /\ state = "ready" /\ status' # "idle") =>
        /\ \A j \in 1..Len(out') : IsReport(out'[j], StreamReports \cup {"ProtocolError"}) =>
              /\ out'[j].sid \in DOMAIN eventToQuic'
              /\ ev'.t \in {"QuicStreamDataReceived", "QuicStreamReset"} =>
                    eventToQuic'[out'[j].sid] = ev'.sid
              /\ ev'.t = "ConnectionClosed" =>
                    eventToQuic'[out'[j].sid] \in OpenStreams(stream)
        /\ (ev'.t = "QuicStreamReset" /\ ev'.sid \in OpenStreams(stream)
                /\ Untranslatable(ev'.sid)) => status' = "raised"
        /\ (ev'.t = "ConnectionClosed"
                /\ \E sid \in OpenStreams(stream) : Untranslatable(sid)) =>
              status' = "raised"
        /\ (ev'.t = "QuicStreamDataReceived" /\ Untranslatable(ev'.sid)
                /\ ~h3done /\ ~h3done' /\ ev'.sid \notin DOMAIN stream
                /\ ev'.frames # <<>> /\ ev'.frames[1] = "H") => status' = "raised"

C16_ClientIdRoundTrip == [][C16_ClientStep]_vars

C16_Witness ==
    /\ role = "client" /\ Handled("QuicStreamDataReceived") /\ status = "returned"
    /\ \E j \in 1..Len(out) :
          IsReport(out[j], {"Headers"}) /\ eventToQuic[out[j].sid] = ev.sid

(***************************************************************************)
(* C17: of the header blocks received on a client-initiated stream the     *)
(* first is reported as Headers and one received after it as Trailers: a   *)
(* turn that is handed a parseable first block of a new stream, in a batch *)
(* the codec decodes without error, yields a Headers report for it, no id  *)
(* gets a second Headers report, and a                                     *)
(* Trailers report for an id is yielded only after a Headers report for    *)
(* that id.  (Stated for streams that have a logical id.)                  *)
(***************************************************************************)
C17_HeaderBlockStep ==
    (Handles("QuicStreamDataReceived") /\ CanPostprocess(Self, ev'.sid)) =>
        LET id == ReportedId(ev'.sid)
        IN  /\ (ev'.sid \notin DOMAIN stream /\ ~h3done /\ ~h3done'
                    /\ ev'.frames # <<>> /\ ev'.frames[1] = "H") =>
                  \E j \in 1..Len(out') : ReportAt(out', j, {"Headers"}, id)
            /\ Count(out', LAMBDA o : IsReport(o, {"Headers"}) /\ o.sid = id)
                   <= (IF id \in headersReported THEN 0 ELSE 1)
            /\ \A j \in 1..Len(out') : ReportAt(out', j, {"Trailers"}, id) =>
                  \/ id \in headersReported
                  \/ \E i \in 1..(j - 1) : ReportAt(out', i, {"Headers"}, id)

C17_HeadersThenTrailers == [][C17_HeaderBlockStep]_vars

(***************************************************************************)
(* The receiving side of the layer alone, with stream data on a stream     *)
(* that is not client-initiated as well (the bidirectional stream of the   *)
(* server side's kind): every behaviour of it is a behaviour of the layer  *)
(* in which the proxy sends no intent and the peer resets no stream.       *)
(***************************************************************************)
OtherIds == {1}

OtherDataEvents ==
    {QuicStreamDataReceived(i, f, e) :
        i \in {j \in OtherIds : StreamExists(j)}, f \in FrameSeqs, e \in BOOLEAN}

OtherStreamDataReceived ==
    /\ status = "idle" /\ state = "ready"
    /\ \E e \in OtherDataEvents :
          /\ ReceiveOpen(e.sid)
          /\ Turn(e, ready_QuicStreamDataReceived(Self, e.sid, e.frames, e.end))

NextReceive ==
    \/ Start
    \/ StreamDataReceived
    \/ OtherStreamDataReceived
    \/ ConnectionClosedEvent
    \/ CompleteTurn

SpecReceive == Init /\ [][NextReceive]_vars

(***************************************************************************)
(* C18: a decoded event that is not body data or a header block on a       *)
(* client-initiated stream yields no report and no transport instruction,  *)
(* only a log command, informational when the event's stream is            *)
(* client-initiated and debug otherwise.  For turns whose decoded events   *)
(* are all of that kind: the turn yields, besides the log of the transport *)
(* event itself, log commands only, and each of them has that severity.    *)
(***************************************************************************)
\* the turn's event is stream data and none of what the codec decodes from it
\* is body data or a header block of a client-initiated stream
OnlyUnsupported(e) ==
    /\ e.t = "QuicStreamDataReceived"
    /\ \/ ~stream_is_client_initiated(e.sid)
       \/ role = "client" /\ e.frames # <<>> /\ \A i \in 1..Len(e.frames) : e.frames[i] = "P"

C18_UnsupportedEvents ==
    (Handled("QuicStreamDataReceived") /\ OnlyUnsupported(ev)) =>
        /\ status = "returned"
        /\ Len(out) >= 1 /\ out[1] = Log("info", "recvd data")
        /\ \A j \in 2..Len(out) :
              /\ out[j].t = "Log"
              /\ out[j].level = (IF stream_is_client_initiated(ev.sid)
                                 THEN "info" ELSE "debug")

(***************************************************************************)
(* The layer together with the codec's requests for stream ids.  The codec *)
(* is outside the repository; a request is a step of its own that the      *)
(* codec may take, with either flag, whenever it is called after start-up. *)
(***************************************************************************)
\* MockQuic.get_next_available_stream_id: Queue.get() on the pool, which
\* blocks when the pool is empty, then the assertion on the directionality
get_next_available_stream_id(self, is_unidirectional) ==
    IF self.pool = <<>>
    THEN [obj |-> [self EXCEPT !.blocked = TRUE], stream_id |-> -1]
    ELSE LET stream_id == Head(self.pool)
             s1 == [self EXCEPT !.pool = Tail(@)]
         IN  IF is_unidirectional # stream_is_unidirectional(stream_id)
             THEN [obj |-> Raise(s1, "AssertionError"), stream_id |-> stream_id]
             ELSE [obj |-> s1, stream_id |-> stream_id]

StreamIdRequest(is_unidirectional) ==
    [NoEvent EXCEPT !.t = "get_next_available_stream_id",
                    !.kind = IF is_unidirectional THEN "unidirectional"
                             ELSE "bidirectional",
                    !.st = state]

CodecRequestsStreamId ==
    /\ status = "idle" /\ state = "ready"
    /\ \E is_unidirectional \in BOOLEAN :
          Turn(StreamIdRequest(is_unidirectional),
               get_next_available_stream_id(Self, is_unidirectional).obj)

NextStreamIds ==
    \/ Next
    \/ CodecRequestsStreamId

SpecStreamIds == Init /\ [][NextStreamIds]_vars

(***************************************************************************)
(* C19: whenever the codec asks for the next available stream id, the pool *)
(* is not empty, the call returns after taking the oldest id of the pool,  *)
(* and that id's directionality is the one asked for, so that the          *)
(* assertion of the shim holds.                                            *)
(***************************************************************************)
C19_RequestStep ==
    (status = "idle" /\ ev'.t = "get_next_available_stream_id") =>
        /\ pool # <<>>
        /\ status' = "returned"
        /\ pool' = Tail(pool)
        /\ stream_is_unidirectional(Head(pool)) = (ev'.kind = "unidirectional")

C19_PoolServesRequests == [][C19_RequestStep]_vars

(***************************************************************************)
(* C20: on the server the handling of an outgoing ProtocolError intent is  *)
(* all-or-nothing, whatever send state the stream is in: applied to the    *)
(* connection object of any reachable state, the handler either yields     *)
(* both the header-send and the data-send instruction for the stream, or   *)
(* yields no instruction for it and leaves none of its own buffered in the *)
(* pending queue.                                                          *)
(***************************************************************************)
\* number of stream-data instructions for stream sid in q
SendsFor(q, sid) == Count(q, LAMBDA o : o.t = "SendQuicStreamData" /\ o.sid = sid)

====
